---- MODULE Spec2Model ----
(***************************************************************************)
(* A model of the OpenBB documentation server (src/server.py): the TOC     *)
(* parser, the section extractor and the two operations discover           *)
(* (_identify_sections_async) and fetch (_fetch_content_async).            *)
(*                                                                         *)
(* A Python str is a sequence of one-character strings, so that strip,     *)
(* lower, split, join, startswith and the link pattern are computed and    *)
(* not assumed.  A dict is an insertion-ordered sequence of <<key, value>> *)
(* pairs.                                                                  *)
(***************************************************************************)
EXTENDS Integers, Sequences, FiniteSets, TLC

(***************************************************************************)
(* Bounds of the model.                                                    *)
(***************************************************************************)
MaxTocLines == 3
MaxDocParts == 5
MaxExtractParts == 3
MaxTitles == 2
MaxCalls == 2

(***************************************************************************)
(* str                                                                     *)
(***************************************************************************)
Whitespace == {" ", "\t", "\n", "\r", "\f"}

UpperCase == <<"A", "B", "C", "D", "E", "F", "G", "H", "I", "J", "K", "L", "M",
               "N", "O", "P", "Q", "R", "S", "T", "U", "V", "W", "X", "Y", "Z">>

LowerCase == <<"a", "b", "c", "d", "e", "f", "g", "h", "i", "j", "k", "l", "m",
               "n", "o", "p", "q", "r", "s", "t", "u", "v", "w", "x", "y", "z">>

LowerChar(c) ==
    IF \E k \in 1..Len(UpperCase) : UpperCase[k] = c
    THEN LowerCase[CHOOSE k \in 1..Len(UpperCase) : UpperCase[k] = c]
    ELSE c

\* str.lower()
Lower(s) == [k \in 1..Len(s) |-> LowerChar(s[k])]

RECURSIVE LStrip(_)
LStrip(s) ==
    IF s # <<>> /\ Head(s) \in Whitespace THEN LStrip(Tail(s)) ELSE s

RECURSIVE RStrip(_)
RStrip(s) ==
    IF s # <<>> /\ s[Len(s)] \in Whitespace
    THEN RStrip(SubSeq(s, 1, Len(s) - 1))
    ELSE s

\* str.strip()
Strip(s) == RStrip(LStrip(s))

\* str.startswith(p)
StartsWith(s, p) == Len(s) >= Len(p) /\ SubSeq(s, 1, Len(p)) = p

\* p in s
Contains(s, p) ==
    \E k \in 0..(Len(s) - Len(p)) : SubSeq(s, k + 1, k + Len(p)) = p

\* str.replace(c, '') for a one-character c
RECURSIVE RemoveChar(_, _)
RemoveChar(s, c) ==
    IF s = <<>> THEN <<>>
    ELSE IF Head(s) = c THEN RemoveChar(Tail(s), c)
         ELSE <<Head(s)>> \o RemoveChar(Tail(s), c)

\* str.split('\n'): the segments between the newlines, at least one
RECURSIVE SplitFrom(_, _, _)
SplitFrom(s, k, cur) ==
    IF k > Len(s) THEN <<cur>>
    ELSE IF s[k] = "\n" THEN <<cur>> \o SplitFrom(s, k + 1, <<>>)
         ELSE SplitFrom(s, k + 1, Append(cur, s[k]))

SplitLines(s) == SplitFrom(s, 1, <<>>)

\* '\n'.join(lines)
RECURSIVE JoinLines(_)
JoinLines(lines) ==
    IF lines = <<>> THEN <<>>
    ELSE IF Len(lines) = 1 THEN lines[1]
         ELSE lines[1] \o <<"\n">> \o JoinLines(Tail(lines))

(***************************************************************************)
(* Optional[str] and dict                                                  *)
(***************************************************************************)
None == [isNone |-> TRUE, value |-> <<>>]

Some(s) == [isNone |-> FALSE, value |-> s]

\* the truth value Python gives an Optional[str]
Truthy(o) == ~o.isNone /\ o.value # <<>>

DictHas(d, k) == \E n \in 1..Len(d) : d[n][1] = k

\* d[k] = v: a new key goes last, a known key keeps its place
DictSet(d, k, v) ==
    IF DictHas(d, k)
    THEN [n \in 1..Len(d) |-> IF d[n][1] = k THEN <<k, v>> ELSE d[n]]
    ELSE Append(d, <<k, v>>)

\* d.get(k, default)
DictGet(d, k, default) ==
    IF DictHas(d, k)
    THEN d[CHOOSE n \in 1..Len(d) : d[n][1] = k][2]
    ELSE default

DictKeys(d) == {d[n][1] : n \in 1..Len(d)}

(***************************************************************************)
(* re.search(r'\[([^\]]+)\]\(([^)]+)\)', line)                             *)
(***************************************************************************)
\* the first position >= from that holds c, or 0
RECURSIVE IndexOf(_, _, _)
IndexOf(s, c, from) ==
    IF from > Len(s) THEN 0
    ELSE IF s[from] = c THEN from
         ELSE IndexOf(s, c, from + 1)

NoMatch == [matched |-> FALSE, group1 |-> <<>>, group2 |-> <<>>]

\* The pattern anchored at position i.  [^\]]+ runs to the first "]" and
\* [^)]+ to the first ")": a shorter run is followed by a character of the
\* run, never by the delimiter, so backtracking finds nothing else.
LinkMatchAt(s, i) ==
    IF s[i] # "[" THEN NoMatch
    ELSE LET k == IndexOf(s, "]", i + 1) IN
         IF k = 0 \/ k = i + 1 \/ k + 1 > Len(s) THEN NoMatch
         ELSE IF s[k + 1] # "(" THEN NoMatch
         ELSE LET m == IndexOf(s, ")", k + 2) IN
              IF m = 0 \/ m = k + 2 THEN NoMatch
              ELSE [matched |-> TRUE,
                    group1 |-> SubSeq(s, i + 1, k - 1),
                    group2 |-> SubSeq(s, k + 2, m - 1)]

\* re.search: the leftmost position where the pattern matches
RECURSIVE LinkSearchFrom(_, _)
LinkSearchFrom(s, i) ==
    IF i > Len(s) THEN NoMatch
    ELSE IF LinkMatchAt(s, i).matched THEN LinkMatchAt(s, i)
         ELSE LinkSearchFrom(s, i + 1)

LinkSearch(s) == LinkSearchFrom(s, 1)

(***************************************************************************)
(* _parse_toc                                                              *)
(***************************************************************************)
ListMarkers == {<<"-">>, <<"*">>, <<"1", ".">>, <<"2", ".">>, <<"3", ".">>,
                <<"4", ".">>, <<"5", ".">>}

IsListItem(line) == \E p \in ListMarkers : StartsWith(line, p)

\* f"{current_category}: {title}" if current_category else title
Description(current_category, title) ==
    IF current_category # <<>>
    THEN current_category \o <<":", " ">> \o title
    ELSE title

\* the category after a line that is no list item
CategoryAfter(line, current_category) ==
    IF line # <<>> /\ ~StartsWith(line, <<"#">>)
                   /\ ~StartsWith(line, <<"h", "t", "t", "p">>)
    THEN Strip(RemoveChar(line, "#"))
    ELSE current_category

\* the query filter: a descriptor is dropped when a query is given and is
\* a substring of neither its title nor its category
FilteredOut(query, title, current_category) ==
    /\ Truthy(query)
    /\ ~Contains(Lower(title), Lower(query.value))
    /\ ~Contains(Lower(current_category), Lower(query.value))

Descriptor(title, current_category, url) ==
    [title |-> title, category |-> current_category, url |-> url,
     description |-> Description(current_category, title)]

\* the for loop over the lines, from line k on
RECURSIVE ParseTocLoop(_, _, _, _, _)
ParseTocLoop(lines, query, k, current_category, sections) ==
    IF k > Len(lines) THEN sections
    ELSE LET line == Strip(lines[k]) IN
         IF line = <<>>
         THEN ParseTocLoop(lines, query, k + 1, current_category, sections)
         ELSE IF ~IsListItem(line)
         THEN ParseTocLoop(lines, query, k + 1,
                           CategoryAfter(line, current_category), sections)
         ELSE LET link_match == LinkSearch(line)
                  title == Strip(link_match.group1)
                  url == Strip(link_match.group2)
              IN IF link_match.matched
                    /\ ~FilteredOut(query, title, current_category)
                 THEN ParseTocLoop(lines, query, k + 1, current_category,
                          Append(sections,
                                 Descriptor(title, current_category, url)))
                 ELSE ParseTocLoop(lines, query, k + 1, current_category,
                                   sections)

_parse_toc(toc_content, query) ==
    ParseTocLoop(SplitLines(Strip(toc_content)), query, 1, <<>>, <<>>)

\* {section["title"]: section["url"] for section in parsed_sections}
RECURSIVE SectionUrlMapFrom(_, _, _)
SectionUrlMapFrom(parsed_sections, k, d) ==
    IF k > Len(parsed_sections) THEN d
    ELSE SectionUrlMapFrom(parsed_sections, k + 1,
             DictSet(d, parsed_sections[k].title, parsed_sections[k].url))

SectionUrlMap(parsed_sections) == SectionUrlMapFrom(parsed_sections, 1, <<>>)

(***************************************************************************)
(* _find_section_content                                                   *)
(***************************************************************************)
\* A requested title is a str.  PyNone stands for a title that is no str
\* (the object None): its one element is no character, so it equals no str.
PyNone == <<"<None>">>

IsStr(x) == x # PyNone

\* str(x), as an f-string formats it
PyStr(x) == IF IsStr(x) THEN x ELSE <<"N", "o", "n", "e">>

\* How a call ends: it returns an Optional[str] or raises an exception.
Return(o) == [raised |-> FALSE, result |-> o, error |-> <<>>]

Raise(message) == [raised |-> TRUE, result |-> None, error |-> message]

\* str(e) of the AttributeError that title.lower() raises for None
NoLowerMessage ==
    <<"'", "N", "o", "n", "e", "T", "y", "p", "e", "'", " ", "o", "b", "j",
      "e", "c", "t", " ", "h", "a", "s", " ", "n", "o", " ", "a", "t", "t",
      "r", "i", "b", "u", "t", "e", " ", "'", "l", "o", "w", "e", "r", "'">>

TitlePrefix == <<"t", "i", "t", "l", "e", ":">>

Delimiter == <<"-", "-", "-">>

\* while j < len(lines) and lines[j].strip() != '---': j += 1
RECURSIVE SkipFrontMatter(_, _)
SkipFrontMatter(lines, j) ==
    IF j <= Len(lines) /\ Strip(lines[j]) # Delimiter
    THEN SkipFrontMatter(lines, j + 1)
    ELSE j

\* AtNextSection without its lookahead: every --- ends the section
AtNextSectionNoLookahead(lines, j) == Strip(lines[j]) = Delimiter

\* the break test of the collecting loop: --- followed by --- or a blank line
AtNextSection(lines, j) ==
    /\ Strip(lines[j]) = Delimiter
    /\ j + 1 <= Len(lines)
    /\ (Strip(lines[j + 1]) = Delimiter \/ Strip(lines[j + 1]) = <<>>)

\* the collecting loop, from line j on
RECURSIVE CollectContent(_, _, _)
CollectContent(lines, j, content_lines) ==
    IF j > Len(lines) THEN content_lines
    ELSE IF AtNextSection(lines, j) THEN content_lines
         ELSE CollectContent(lines, j + 1, Append(content_lines, lines[j]))

\* the body of the section whose title line is line i
SectionBody(lines, i) ==
    JoinLines(CollectContent(lines, SkipFrontMatter(lines, i + 1) + 1, <<>>))

\* the outer while loop, from line i on
RECURSIVE FindLoop(_, _, _)
FindLoop(lines, title, i) ==
    IF i > Len(lines) THEN Return(None)
    ELSE LET line == Strip(lines[i]) IN
         IF StartsWith(Lower(line), TitlePrefix)
         THEN LET section_title == Strip(SubSeq(line, 7, Len(line))) IN
              IF ~IsStr(title) THEN Raise(NoLowerMessage)
              ELSE IF Lower(section_title) = Lower(title)
                   THEN Return(Some(SectionBody(lines, i)))
                   ELSE FindLoop(lines, title, i + 1)
         ELSE FindLoop(lines, title, i + 1)

_find_section_content(full_docs, title) ==
    FindLoop(SplitLines(full_docs), title, 1)

(***************************************************************************)
(* _extract_sections_from_docs                                             *)
(***************************************************************************)
\* NotFoundMessage with the title lower-cased, as the matching sees it
NotFoundMessageLowered(title) ==
    <<"S", "e", "c", "t", "i", "o", "n", " ", "'">> \o Lower(PyStr(title)) \o
    <<"'", " ", "n", "o", "t", " ", "f", "o", "u", "n", "d", " ", "i", "n",
      " ", "d", "o", "c", "u", "m", "e", "n", "t", "a", "t", "i", "o", "n",
      ".">>

\* f"Section '{title}' not found in documentation."
NotFoundMessage(title) ==
    <<"S", "e", "c", "t", "i", "o", "n", " ", "'">> \o PyStr(title) \o
    <<"'", " ", "n", "o", "t", " ", "f", "o", "u", "n", "d", " ", "i", "n",
      " ", "d", "o", "c", "u", "m", "e", "n", "t", "a", "t", "i", "o", "n",
      ".">>

\* f"Error extracting section '{title}': {str(e)}"
ErrorMessage(title, message) ==
    <<"E", "r", "r", "o", "r", " ", "e", "x", "t", "r", "a", "c", "t", "i",
      "n", "g", " ", "s", "e", "c", "t", "i", "o", "n", " ", "'">> \o
    PyStr(title) \o <<"'", ":", " ">> \o message

\* the value one title gets: the try block and its except arm
SectionValue(full_docs, title) ==
    LET found == _find_section_content(full_docs, title) IN
    IF found.raised THEN ErrorMessage(title, found.error)
    ELSE IF Truthy(found.result) THEN found.result.value
         ELSE NotFoundMessage(title)

\* ExtractLoop giving up at the first title that is not found or fails
RECURSIVE ExtractLoopAborting(_, _, _, _)
ExtractLoopAborting(full_docs, section_titles, k, content_sections) ==
    IF k > Len(section_titles) THEN content_sections
    ELSE LET found == _find_section_content(full_docs, section_titles[k]) IN
         IF found.raised \/ ~Truthy(found.result) THEN content_sections
         ELSE ExtractLoopAborting(full_docs, section_titles, k + 1,
                  DictSet(content_sections, section_titles[k],
                          found.result.value))

\* the for loop over section_titles, from title k on
RECURSIVE ExtractLoop(_, _, _, _)
ExtractLoop(full_docs, section_titles, k, content_sections) ==
    IF k > Len(section_titles) THEN content_sections
    ELSE ExtractLoop(full_docs, section_titles, k + 1,
             DictSet(content_sections, section_titles[k],
                     SectionValue(full_docs, section_titles[k])))

_extract_sections_from_docs(full_docs, section_titles) ==
    ExtractLoop(full_docs, section_titles, 1, <<>>)

(***************************************************************************)
(* The state.                                                              *)
(*   toc_content, query, sections: an application of _parse_toc            *)
(*   full_docs, title, found: an application of _find_section_content      *)
(*   full_docs, section_titles, content_sections: an application of        *)
(*       _extract_sections_from_docs                                       *)
(*   stage: "called" before the function has run, "returned" after         *)
(*   remote: the two documents the upstream server holds                   *)
(*   calls: the tool calls, each a coroutine with its locals and its place *)
(*   clients: the httpx.AsyncClient objects created so far                 *)
(***************************************************************************)
VARIABLES toc_content, query, sections, full_docs, title, found,
          section_titles, content_sections, stage, remote, calls, clients

vars == <<toc_content, query, sections, full_docs, title, found,
          section_titles, content_sections, stage, remote, calls, clients>>

parseVars == <<toc_content, query, sections>>

findVars == <<title, found>>

extractVars == <<section_titles, content_sections>>

serverVars == <<remote, calls, clients>>

\* all the sequences over S of length at most n
SeqsUpTo(S, n) == UNION {[1..k -> S] : k \in 0..n}

(***************************************************************************)
(* Inputs.                                                                 *)
(***************************************************************************)
\* the TOC of the end-to-end example:
\* ## Setup / - [Installation](https://x/install) / - [Quickstart](https://x/quick)
ExampleToc ==
    <<"#", "#", " ", "S", "e", "t", "u", "p", "\n",
      "-", " ", "[", "I", "n", "s", "t", "a", "l", "l", "a", "t", "i", "o",
      "n", "]", "(", "h", "t", "t", "p", "s", ":", "/", "/", "x", "/", "i",
      "n", "s", "t", "a", "l", "l", ")", "\n",
      "-", " ", "[", "Q", "u", "i", "c", "k", "s", "t", "a", "r", "t", "]",
      "(", "h", "t", "t", "p", "s", ":", "/", "/", "x", "/", "q", "u", "i",
      "c", "k", ")">>

\* TOC lines: a heading, a plain line, links after the markers, a link whose
\* title is one space, a list item without a link, a blank line, a plain
\* line with padding and a "#" inside
TocLines ==
    { <<"#", "#", " ", "S">>,
      <<"C">>,
      <<"-", " ", "[", "A", "]", "(", "u", ")">>,
      <<"1", ".", " ", "[", "B", "]", "(", " ", "v", ")">>,
      <<"-", " ", "[", " ", "]", "(", "u", ")">>,
      <<"-", " ", "x">>,
      <<>>,
      <<" ", "D", " ", "#", "1">> }

TocInputs ==
    {JoinLines(ls) : ls \in SeqsUpTo(TocLines, MaxTocLines)} \cup {ExampleToc}

QueryInputs == {None, Some(<<"s">>)}

\* Parts of a full-docs text: the front matter of section A, the front
\* matter of section B (other case and spacing), a body line, a delimiter,
\* a blank line, a delimiter with a trailing space
DocParts ==
    { <<"-", "-", "-", "\n", "t", "i", "t", "l", "e", ":", " ", "A", "\n",
        "-", "-", "-">>,
      <<"-", "-", "-", "\n", "T", "i", "t", "l", "e", ":", "b", " ", "\n",
        "-", "-", "-">>,
      <<"x">>,
      <<"-", "-", "-">>,
      <<>>,
      <<"-", "-", "-", " ">> }

DocInputs(n) == {JoinLines(ps) : ps \in SeqsUpTo(DocParts, n)}

TitleInputs == {<<"A">>, <<"a">>, <<"B">>, <<"C">>}

TitleListInputs == SeqsUpTo({<<"A">>, <<"B">>, PyNone}, MaxTitles)

(***************************************************************************)
(* _parse_toc applied to every TOC input.                                  *)
(***************************************************************************)
Idle == <<>>

ParseInit ==
    /\ toc_content \in TocInputs
    /\ query \in QueryInputs
    /\ sections = <<>>
    /\ stage = "called"
    /\ full_docs = Idle /\ title = Idle /\ found = Return(None)
    /\ section_titles = Idle /\ content_sections = Idle
    /\ remote = Idle /\ calls = Idle /\ clients = Idle

ParseToc ==
    /\ stage = "called"
    /\ sections' = _parse_toc(toc_content, query)
    /\ stage' = "returned"
    /\ UNCHANGED <<toc_content, query, full_docs, findVars, extractVars,
                   serverVars>>

SpecParse == ParseInit /\ [][ParseToc]_vars

(***************************************************************************)
(* _find_section_content applied to every document and title.              *)
(***************************************************************************)
FindInit ==
    /\ full_docs \in DocInputs(MaxDocParts)
    /\ title \in TitleInputs
    /\ found = Return(None)
    /\ stage = "called"
    /\ toc_content = Idle /\ query = None /\ sections = Idle
    /\ section_titles = Idle /\ content_sections = Idle
    /\ remote = Idle /\ calls = Idle /\ clients = Idle

FindSection ==
    /\ stage = "called"
    /\ found' = _find_section_content(full_docs, title)
    /\ stage' = "returned"
    /\ UNCHANGED <<parseVars, full_docs, title, extractVars, serverVars>>

SpecFind == FindInit /\ [][FindSection]_vars

(***************************************************************************)
(* _extract_sections_from_docs applied to every document and title list.   *)
(***************************************************************************)
ExtractInit ==
    /\ full_docs \in DocInputs(MaxExtractParts)
    /\ section_titles \in TitleListInputs
    /\ content_sections = <<>>
    /\ stage = "called"
    /\ toc_content = Idle /\ query = None /\ sections = Idle
    /\ title = Idle /\ found = Return(None)
    /\ remote = Idle /\ calls = Idle /\ clients = Idle

ExtractSections ==
    /\ stage = "called"
    /\ content_sections' = _extract_sections_from_docs(full_docs, section_titles)
    /\ stage' = "returned"
    /\ UNCHANGED <<parseVars, full_docs, findVars, section_titles, serverVars>>

SpecExtract == ExtractInit /\ [][ExtractSections]_vars

(***************************************************************************)
(* The operations.  Each call is a coroutine; its steps are the places     *)
(* where it can be suspended: the two requests and leaving the client's   *)
(* context.                                                                *)
(***************************************************************************)
TOC_URL == "https://docs.openbb.co/workspace/llms.txt"

FULL_DOCS_URL == "https://docs.openbb.co/workspace/llms-full.txt"

\* httpx.AsyncClient(timeout=...)
DiscoverTimeout == 30

FetchTimeout == 60

CallIds == 1..MaxCalls

\* what the upstream server may hold: a TOC with entries for A and B, a TOC
\* with a category and an entry for A only; documents with the sections A
\* and B, and with the section A only
RemoteTocs ==
    { <<"-", " ", "[", "A", "]", "(", "u", ")", "\n",
        "-", " ", "[", "B", "]", "(", "v", ")">>,
      <<"C", "\n", "-", " ", "[", "A", "]", "(", "u", ")">> }

DocOnlyA ==
    <<"-", "-", "-", "\n", "t", "i", "t", "l", "e", ":", " ", "A", "\n",
      "-", "-", "-", "\n", "x">>

DocAandB ==
    <<"-", "-", "-", "\n", "t", "i", "t", "l", "e", ":", " ", "A", "\n",
      "-", "-", "-", "\n", "x", "\n", "-", "-", "-", "\n", "\n",
      "-", "-", "-", "\n", "t", "i", "t", "l", "e", ":", " ", "B", "\n",
      "-", "-", "-", "\n", "y">>

RemoteDocs == {DocOnlyA, DocAandB}

\* the body the upstream server sends with a status that is no success
ErrorPage == <<"e", "r", "r">>

UserQueries == {<<"q">>}

FetchTitleLists == { << <<"A">>, <<"B">> >>, << <<"a">> >> }

Statuses == {200, 404}

TransportErrors == {"ConnectError", "ReadTimeout"}

NoException == [type |-> "", message |-> <<>>]

\* the exceptions of the model are subclasses of Exception, which is what
\* "except Exception" catches
ExceptionClasses == {"HTTPStatusError"} \cup TransportErrors

\* an except clause that names the status error only
CaughtStatusErrorOnly(exc) == exc.type = "HTTPStatusError"

\* except Exception as e
Caught(exc) == exc.type \in ExceptionClasses

\* raise_for_status left out: every response is taken as a success
NeverRaiseForStatus(status, url) == NoException

\* response.raise_for_status()
RaiseForStatus(status, url) ==
    IF status \in 200..299 THEN NoException
    ELSE [type |-> "HTTPStatusError", message |-> <<ToString(status), url>>]

\* response.text
ResponseText(status, url) ==
    IF status # 200 THEN ErrorPage
    ELSE IF url = TOC_URL THEN remote.toc ELSE remote.docs

\* traceback.format_exc()
Traceback(exc) == <<"Traceback (most recent call last):", exc.type, exc.message>>

\* a client that is closed only when the block is left without an exception
ClientLeftOpenOnError(client, exc) ==
    [client EXCEPT !.open = (exc # NoException)]

\* __aexit__ of "async with httpx.AsyncClient(...) as client"
ClientAfterExit(client, exc) == [client EXCEPT !.open = FALSE]

\* the try block of _identify_sections_async after the with block
DiscoverSuccess(call) ==
    LET parsed_sections == _parse_toc(call.toc_content, None) IN
    [success |-> TRUE,
     query |-> call.user_query,
     raw_toc_content |-> call.toc_content,
     section_urls |-> SectionUrlMap(parsed_sections)]

\* the except arm of _identify_sections_async
DiscoverFailure(call) ==
    [success |-> FALSE,
     error |-> call.exc.message,
     error_type |-> call.exc.type,
     traceback |-> Traceback(call.exc),
     query |-> call.user_query,
     raw_toc_content |-> <<>>]

URL_NOT_FOUND == <<"U", "R", "L", " ", "n", "o", "t", " ", "f", "o", "u", "n", "d">>

\* for title, content in content_sections.items(): ...
RECURSIVE SectionsWithUrlsFrom(_, _, _, _)
SectionsWithUrlsFrom(content_sections_, section_url_map, k, d) ==
    IF k > Len(content_sections_) THEN d
    ELSE SectionsWithUrlsFrom(content_sections_, section_url_map, k + 1,
             DictSet(d, content_sections_[k][1],
                     [url |-> DictGet(section_url_map, content_sections_[k][1],
                                      URL_NOT_FOUND),
                      content |-> content_sections_[k][2]]))

\* sections_found as its docstring has it: the sections really extracted
SectionsFoundOnlyReal(content_sections_) ==
    Cardinality({k \in 1..Len(content_sections_) :
        content_sections_[k][2] # NotFoundMessage(content_sections_[k][1])})

\* len(content_sections)
SectionsFound(content_sections_) == Len(content_sections_)

\* the try block of _fetch_content_async after the with block
FetchSuccess(call) ==
    LET parsed_sections == _parse_toc(call.toc_content, None)
        section_url_map == SectionUrlMap(parsed_sections)
        extracted == _extract_sections_from_docs(call.full_docs,
                                                 call.section_titles)
    IN [success |-> TRUE,
        user_query |-> call.user_query,
        extracted_content |->
            SectionsWithUrlsFrom(extracted, section_url_map, 1, <<>>),
        sections_found |-> SectionsFound(extracted)]

\* the except arm of _fetch_content_async
FetchFailure(call) ==
    [success |-> FALSE,
     error |-> call.exc.message,
     error_type |-> call.exc.type,
     traceback |-> Traceback(call.exc),
     user_query |-> call.user_query,
     extracted_content |-> <<>>]

NewCall ==
    [op |-> "none", pc |-> "idle", user_query |-> <<>>,
     section_titles |-> <<>>, client |-> 0, toc_content |-> <<>>,
     full_docs |-> <<>>, exc |-> NoException, requests |-> <<>>,
     response |-> <<>>]

Init ==
    /\ remote \in [toc : RemoteTocs, docs : RemoteDocs]
    /\ calls = [c \in CallIds |-> NewCall]
    /\ clients = <<>>
    /\ stage = "serving"
    /\ toc_content = Idle /\ query = None /\ sections = Idle
    /\ full_docs = Idle /\ title = Idle /\ found = Return(None)
    /\ section_titles = Idle /\ content_sections = Idle

pureVars == <<parseVars, full_docs, findVars, extractVars, stage>>

\* httpx.AsyncClient(timeout=...): a new client, open, not yet used
NewClient(c, op) ==
    [owner |-> c, open |-> TRUE, used_by |-> {},
     timeout |-> IF op = "discover" THEN DiscoverTimeout ELSE FetchTimeout]

\* the call's state once the function has entered its with block
Entered(op, user_query, titles, client) ==
    [NewCall EXCEPT !.op = op, !.pc = "get_toc", !.user_query = user_query,
                    !.section_titles = titles, !.client = client]

\* A tool is called, identify_openbb_docs_sections or fetch_openbb_content:
\* the coroutine runs, without a suspension, into
\* "async with httpx.AsyncClient(timeout=...) as client", which makes a
\* client of its own.  The calls are numbered in the order they arrive.
Invoke(c) ==
    /\ calls[c].pc = "idle"
    /\ \A d \in CallIds : d < c => calls[d].pc # "idle"
    /\ \E q \in UserQueries :
          \/ /\ calls' = [calls EXCEPT
                    ![c] = Entered("discover", q, <<>>, Len(clients) + 1)]
             /\ clients' = Append(clients, NewClient(c, "discover"))
          \/ \E titles \in FetchTitleLists :
                /\ calls' = [calls EXCEPT
                       ![c] = Entered("fetch", q, titles, Len(clients) + 1)]
                /\ clients' = Append(clients, NewClient(c, "fetch"))
    /\ UNCHANGED <<remote, pureVars>>

\* the url the call is about to get, or is waiting for
UrlAt(pc) == IF pc \in {"get_toc", "await_toc"} THEN TOC_URL ELSE FULL_DOCS_URL

\* a request as the call remembers it: where it went and how it ended
\* ("pending", "response" with a status, or "failed" with an error)
Request(url) == [url |-> url, state |-> "pending", status |-> 0, error |-> ""]

\* client.get(url) is started: the request goes out on the call's client
SendRequest(c) ==
    /\ calls[c].pc \in {"get_toc", "get_docs"}
    /\ clients[calls[c].client].open
    /\ clients' = [clients EXCEPT ![calls[c].client].used_by = @ \cup {c}]
    /\ calls' = [calls EXCEPT
           ![c].requests = Append(@, Request(UrlAt(calls[c].pc))),
           ![c].pc = IF @ = "get_toc" THEN "await_toc" ELSE "await_docs"]
    /\ UNCHANGED <<remote, pureVars>>

\* the call's state after a response with this status: raise_for_status,
\* then the text is kept and the call goes on
AfterResponse(call, status) ==
    LET url == UrlAt(call.pc)
        exc == RaiseForStatus(status, url)
        answered == [call EXCEPT !.requests[Len(call.requests)].state = "response",
                                 !.requests[Len(call.requests)].status = status]
    IN IF exc # NoException
       THEN [answered EXCEPT !.exc = exc, !.pc = "exit"]
       ELSE IF call.pc = "await_toc"
            THEN [answered EXCEPT !.toc_content = ResponseText(status, url),
                      !.pc = IF call.op = "fetch" THEN "get_docs" ELSE "exit"]
            ELSE [answered EXCEPT !.full_docs = ResponseText(status, url),
                                  !.pc = "exit"]

\* await client.get(url) returns a response
ReceiveResponse(c) ==
    /\ calls[c].pc \in {"await_toc", "await_docs"}
    /\ \E status \in Statuses :
          calls' = [calls EXCEPT ![c] = AfterResponse(calls[c], status)]
    /\ UNCHANGED <<remote, clients, pureVars>>

\* await client.get(url) raises: the transport fails, or the timeout expires
FetchFails(c) ==
    /\ calls[c].pc \in {"await_toc", "await_docs"}
    /\ \E type \in TransportErrors :
          calls' = [calls EXCEPT
              ![c].requests[Len(calls[c].requests)].state = "failed",
              ![c].requests[Len(calls[c].requests)].error = type,
              ![c].exc = [type |-> type,
                          message |-> <<type, UrlAt(calls[c].pc)>>],
              ![c].pc = "exit"]
    /\ UNCHANGED <<remote, clients, pureVars>>

\* the with block is left, normally or by an exception
CloseClient(c) ==
    /\ calls[c].pc = "exit"
    /\ clients' = [clients EXCEPT
           ![calls[c].client] = ClientAfterExit(@, calls[c].exc)]
    /\ calls' = [calls EXCEPT ![c].pc = "respond"]
    /\ UNCHANGED <<remote, pureVars>>

\* the call's state when the function is left: the rest of the try block,
\* or the except arm; an exception that no arm catches leaves the function
Responded(call) ==
    IF call.exc = NoException
    THEN [call EXCEPT !.pc = "done",
              !.response = IF call.op = "discover" THEN DiscoverSuccess(call)
                           ELSE FetchSuccess(call)]
    ELSE IF Caught(call.exc)
         THEN [call EXCEPT !.pc = "done",
                  !.response = IF call.op = "discover" THEN DiscoverFailure(call)
                               ELSE FetchFailure(call)]
         ELSE [call EXCEPT !.pc = "raised"]

Respond(c) ==
    /\ calls[c].pc = "respond"
    /\ calls' = [calls EXCEPT ![c] = Responded(calls[c])]
    /\ UNCHANGED <<remote, clients, pureVars>>

Next ==
    \E c \in CallIds :
        \/ Invoke(c)
        \/ SendRequest(c)
        \/ ReceiveResponse(c)
        \/ FetchFails(c)
        \/ CloseClient(c)
        \/ Respond(c)

Spec == Init /\ [][Next]_vars

(***************************************************************************)
(* Properties of _parse_toc (SpecParse).                                   *)
(***************************************************************************)
\* C5: every descriptor _parse_toc returns has a non-empty title and a
\* non-empty url, and its description is category + ": " + title when the
\* category is non-empty and title otherwise.
C5_DescriptorsWellFormed ==
    stage = "returned" =>
        \A k \in 1..Len(sections) :
            /\ sections[k].title # <<>>
            /\ sections[k].url # <<>>
            /\ sections[k].description =
                   IF sections[k].category # <<>>
                   THEN sections[k].category \o <<":", " ">> \o sections[k].title
                   ELSE sections[k].title

ExampleTitles ==
    << <<"I", "n", "s", "t", "a", "l", "l", "a", "t", "i", "o", "n">>,
       <<"Q", "u", "i", "c", "k", "s", "t", "a", "r", "t">> >>

\* C6: _parse_toc of the example TOC returns exactly two descriptors,
\* Installation and then Quickstart, both with category "Setup".
C6_ExampleParsesUnderSetup ==
    (stage = "returned" /\ toc_content = ExampleToc /\ query = None) =>
        /\ Len(sections) = 2
        /\ \A k \in 1..2 :
              /\ sections[k].title = ExampleTitles[k]
              /\ sections[k].category = <<"S", "e", "t", "u", "p">>

(***************************************************************************)
(* Properties of _find_section_content (SpecFind).                         *)
(***************************************************************************)
\* line is a title line for t: trimmed, it starts with "title:" in any case
\* and the trimmed rest is t in any case
IsTitleLine(line, t) ==
    LET l == Strip(line) IN
    /\ Len(l) >= 6
    /\ Lower(SubSeq(l, 1, 6)) = TitlePrefix
    /\ Lower(Strip(SubSeq(l, 7, Len(l)))) = Lower(t)

\* the numbers of the title lines for t among lines
TitleLinesOf(lines, t) == {i \in 1..Len(lines) : IsTitleLine(lines[i], t)}

\* the least member of a set of line numbers, or the given number if none
FirstOf(S, otherwise) ==
    IF S = {} THEN otherwise
    ELSE CHOOSE i \in S : \A j \in S : i <= j

IsBlank(line) == \A k \in 1..Len(line) : line[k] \in Whitespace

\* the numbers of the lines that are --- once trimmed
TrimmedDelimiters(lines) == {j \in 1..Len(lines) : Strip(lines[j]) = Delimiter}

\* the numbers of the lines that are ---, character for character
ExactDelimiters(lines) == {j \in 1..Len(lines) : lines[j] = Delimiter}

\* The body the claim describes for the title line i, delims being the
\* numbers of the --- lines: the lines after the first delimiter that
\* follows line i, up to the first delimiter that is followed by a
\* delimiter or a blank line.
BodyBetween(lines, i, delims) ==
    LET n == Len(lines)
        closing == FirstOf({j \in delims : j > i}, n + 1)
        boundary == FirstOf({j \in delims :
                        /\ j > closing
                        /\ j < n
                        /\ (j + 1 \in delims \/ IsBlank(lines[j + 1]))},
                        n + 1)
    IN JoinLines(SubSeq(lines, closing + 1, boundary - 1))

\* C3 as stated: for a title with exactly one title line the result is the
\* body between the closing front-matter --- and the next boundary, where
\* a delimiter is a line that is exactly ---.
C3_BodyBetweenExactDelimiters ==
    stage = "returned" =>
        LET lines == SplitLines(full_docs)
            at == TitleLinesOf(lines, title)
        IN Cardinality(at) = 1 =>
               found = Return(Some(BodyBetween(lines, FirstOf(at, 0),
                                               ExactDelimiters(lines))))

\* C3 as amended: the same, where a delimiter is a line that is --- once
\* its surrounding whitespace is trimmed.
C3_BodyBetweenTrimmedDelimiters ==
    stage = "returned" =>
        LET lines == SplitLines(full_docs)
            at == TitleLinesOf(lines, title)
        IN Cardinality(at) = 1 =>
               found = Return(Some(BodyBetween(lines, FirstOf(at, 0),
                                               TrimmedDelimiters(lines))))

\* The one section of the document: a --- kept inside the body (the next
\* line is text), then the boundary (--- and a blank line).
C3_Witness ==
    /\ stage = "returned"
    /\ title = <<"a">>
    /\ SplitLines(full_docs) =
           <<Delimiter, <<"t", "i", "t", "l", "e", ":", " ", "A">>, Delimiter,
             Delimiter, <<"x">>, Delimiter, <<>> >>
    /\ found = Return(Some(<<"-", "-", "-", "\n", "x">>))

(***************************************************************************)
(* Properties of _extract_sections_from_docs (SpecExtract).                *)
(***************************************************************************)
RequestedTitles == {section_titles[k] : k \in 1..Len(section_titles)}

\* "Section '<title>' not found in documentation."
C4_Placeholder(t) ==
    <<"S", "e", "c", "t", "i", "o", "n", " ", "'">> \o t \o
    <<"'", " ", "n", "o", "t", " ", "f", "o", "u", "n", "d", " ", "i", "n",
      " ", "d", "o", "c", "u", "m", "e", "n", "t", "a", "t", "i", "o", "n",
      ".">>

\* C4: a requested title (a str) that no title line of the document matches
\* is mapped to the not-found placeholder, which holds the title as given.
C4_AbsentTitleGetsPlaceholder ==
    stage = "returned" =>
        \A t \in RequestedTitles :
            (IsStr(t) /\ TitleLinesOf(SplitLines(full_docs), t) = {}) =>
                /\ DictHas(content_sections, t)
                /\ DictGet(content_sections, t, <<>>) = C4_Placeholder(t)

\* the document has title lines, none of them for the requested "B"
C4_Witness ==
    /\ stage = "returned"
    /\ <<"B">> \in RequestedTitles
    /\ TitleLinesOf(SplitLines(full_docs), <<"B">>) = {}
    /\ TitleLinesOf(SplitLines(full_docs), <<"A">>) # {}
    /\ DictGet(content_sections, <<"B">>, <<>>) = C4_Placeholder(<<"B">>)

\* C8: the keys of the result are exactly the requested titles, as given,
\* and each title's value is the value that extracting that title alone
\* from the same document gives.
C8_PerTitleIsolation ==
    stage = "returned" =>
        /\ DictKeys(content_sections) = RequestedTitles
        /\ Len(content_sections) = Cardinality(RequestedTitles)
        /\ \A t \in RequestedTitles :
              DictGet(content_sections, t, <<>>) =
                  DictGet(_extract_sections_from_docs(full_docs, <<t>>), t, <<>>)

\* a title that is not found comes first and a sibling after it is found
C8_Witness ==
    /\ stage = "returned"
    /\ section_titles = << <<"B">>, <<"A">> >>
    /\ DictGet(content_sections, <<"B">>, <<>>) = C4_Placeholder(<<"B">>)
    /\ DictGet(content_sections, <<"A">>, <<>>) = <<"x">>

\* C11: a requested title (a str) that some title line of the document
\* matches is mapped to the body _find_section_content returns for it, an
\* empty body included, and never to the not-found placeholder.
C11_PresentTitleGetsBody ==
    stage = "returned" =>
        \A t \in RequestedTitles :
            (IsStr(t) /\ TitleLinesOf(SplitLines(full_docs), t) # {}) =>
                /\ DictHas(content_sections, t)
                /\ DictGet(content_sections, t, <<>>) =
                       _find_section_content(full_docs, t).result.value
                /\ DictGet(content_sections, t, <<>>) # C4_Placeholder(t)

(***************************************************************************)
(* Properties of the operations (Spec).                                    *)
(***************************************************************************)
\* a request that got a 2xx response
Succeeded(request) ==
    request.state = "response" /\ request.status \in 200..299

\* a request that ended otherwise: another status, a transport failure,
\* a timeout
Failed(request) ==
    request.state = "failed" \/
    (request.state = "response" /\ request.status \notin 200..299)

\* call c, under way, has a next step: it is at one of the places of its
\* function and, where it is about to send, its client is open
CanContinue(c) ==
    \/ calls[c].pc \in {"get_toc", "get_docs"} /\ clients[calls[c].client].open
    \/ calls[c].pc \in {"await_toc", "await_docs", "exit", "respond"}

\* C1: discover never raises: it makes one TOC request, a call under way
\* can always go on, and it ends with a response whose success is a boolean;
\* after a failed fetch the response is {success: false, error, error_type,
\* traceback, query, raw_toc_content: ""} with the caller's query, after a
\* successful one it is success: true with the fetched TOC text.
C1_DiscoverNeverRaises ==
    \A c \in CallIds :
        calls[c].op = "discover" =>
            /\ calls[c].pc # "raised"
            /\ Len(calls[c].requests) <= 1
            /\ \A k \in 1..Len(calls[c].requests) :
                  calls[c].requests[k].url = TOC_URL
            /\ calls[c].pc # "done" => CanContinue(c)
            /\ calls[c].pc = "done" =>
                  LET r == calls[c].response
                      fetch == calls[c].requests[1]
                  IN /\ r.success \in BOOLEAN
                     /\ Failed(fetch) =>
                           /\ DOMAIN r = {"success", "error", "error_type",
                                          "traceback", "query",
                                          "raw_toc_content"}
                           /\ r.success = FALSE
                           /\ r.query = calls[c].user_query
                           /\ r.raw_toc_content = <<>>
                     /\ Succeeded(fetch) =>
                           /\ r.success = TRUE
                           /\ r.query = calls[c].user_query
                           /\ r.raw_toc_content = remote.toc

\* a discover call has answered after its fetch timed out, another after a
\* 404, another after a 200
C1_Witness ==
    /\ \E c \in CallIds :
          /\ calls[c].op = "discover" /\ calls[c].pc = "done"
          /\ calls[c].requests[1].error = "ReadTimeout"
          /\ calls[c].response.success = FALSE
          /\ calls[c].response.error_type = "ReadTimeout"
    /\ \E c \in CallIds :
          /\ calls[c].op = "discover" /\ calls[c].pc = "done"
          /\ calls[c].requests[1].state = "response"
          /\ calls[c].response.success = TRUE

\* C2: fetch never raises and is all-or-nothing: each url is requested at
\* most once and nothing is requested after a failure; if either fetch
\* failed the response is {success: false, error, error_type, traceback,
\* user_query, extracted_content: {}} (no sections_found); success: true
\* comes only after both fetches succeeded.
C2_FetchAllOrNothing ==
    \A c \in CallIds :
        calls[c].op = "fetch" =>
            LET requests == calls[c].requests IN
            /\ calls[c].pc # "raised"
            /\ \A i, j \in 1..Len(requests) :
                  requests[i].url = requests[j].url => i = j
            /\ \A i \in 1..(Len(requests) - 1) : Succeeded(requests[i])
            /\ calls[c].pc = "done" =>
                  LET r == calls[c].response IN
                  /\ r.success \in BOOLEAN
                  /\ (\E i \in 1..Len(requests) : Failed(requests[i])) =>
                        /\ DOMAIN r = {"success", "error", "error_type",
                                       "traceback", "user_query",
                                       "extracted_content"}
                        /\ r.success = FALSE
                        /\ r.user_query = calls[c].user_query
                        /\ r.extracted_content = <<>>
                  /\ r.success =>
                        /\ Len(requests) = 2
                        /\ requests[1].url = TOC_URL /\ Succeeded(requests[1])
                        /\ requests[2].url = FULL_DOCS_URL
                        /\ Succeeded(requests[2])

\* a fetch call has answered after its TOC fetch succeeded and its
\* full-docs fetch got a 404
C2_Witness ==
    \E c \in CallIds :
        /\ calls[c].op = "fetch" /\ calls[c].pc = "done"
        /\ Len(calls[c].requests) = 2
        /\ Succeeded(calls[c].requests[1])
        /\ calls[c].requests[2].status = 404
        /\ calls[c].response.success = FALSE
        /\ calls[c].response.error_type = "HTTPStatusError"

SuccessfulFetch(c) ==
    calls[c].op = "fetch" /\ calls[c].pc = "done" /\ calls[c].response.success

C9_EntryCarriesTocUrl ==
    \A c \in CallIds :
        SuccessfulFetch(c) =>
            LET r == calls[c].response
                parsed == _parse_toc(remote.toc, None)
            IN \A k \in 1..Len(r.extracted_content) :
                  LET t == r.extracted_content[k][1]
                      entry == r.extracted_content[k][2]
                      urls == {parsed[n].url : n \in
                                  {m \in 1..Len(parsed) :
                                      Lower(parsed[m].title) = Lower(t)}}
                  IN /\ urls # {} => entry.url \in urls
                     /\ entry.url = URL_NOT_FOUND <=> urls = {}

\* C10: every call has exactly one client, its own, from its arrival on;
\* only its owner sends requests on a client; the client is closed when the
\* call builds its response, on every path, and stays closed.
C10_ClientScopedToCall ==
    /\ \A k \in 1..Len(clients) : clients[k].used_by \subseteq {clients[k].owner}
    /\ \A c \in CallIds :
          LET own == {k \in 1..Len(clients) : clients[k].owner = c} IN
          /\ calls[c].pc = "idle" => own = {}
          /\ calls[c].pc # "idle" =>
                /\ own = {calls[c].client}
                /\ Len(calls[c].requests) > 0 =>
                      clients[calls[c].client].used_by = {c}
                /\ calls[c].pc \in {"respond", "done", "raised"} =>
                      ~clients[calls[c].client].open

\* one call has answered after a failed fetch and its client is closed,
\* while another call is waiting for a response on its own open client
C10_Witness ==
    \E c, d \in CallIds :
        /\ calls[c].pc = "done" /\ ~calls[c].response.success
        /\ ~clients[calls[c].client].open
        /\ calls[d].pc = "await_docs"
        /\ clients[calls[d].client].open
        /\ calls[c].client # calls[d].client

====
